---- MODULE Spec2Model ----
(***************************************************************************)
(* Task-lifecycle client of taskforceai-sdk-go: the polling state machine  *)
(* (client.go, WaitForCompletion over GetTaskStatus) and the server-sent   *)
(* event decoder (stream.go, sseStream.Next / Close).                      *)
(*                                                                         *)
(* WaitForCompletion and Next are blocking calls that run concurrently     *)
(* with the caller's cancellation of the context; each is therefore cut    *)
(* at the points where the goroutine can be overtaken by a cancellation,   *)
(* a timer or the network: one action per such step.                       *)
(***************************************************************************)
EXTENDS Integers, Sequences, FiniteSets, TLC

VARIABLES
    \* ---- Client (client.go 21-28) and the requests it sends
    apiKey,        \* c.apiKey
    lastReq,       \* the request most recently handed to c.httpClient.Do
    \* ---- SubmitTask (client.go 88-118)
    subRet,        \* the (taskID, error) the last SubmitTask returned
    nSubmits,      \* SubmitTask calls made
    subCall,       \* history: the arguments and environment of the last call
    nPosts,        \* POST /run requests handed to c.httpClient.Do
    rpc,           \* position of a RunTaskStream call: "idle" or "submitted"
    \* ---- environment of the poller
    script,        \* the responses the server gives to the first status requests
    tail,          \* the response it gives to every later request
    ctxDone,       \* ctx.Done() is closed
    cancelAt,      \* history: where WaitForCompletion stood when ctx was cancelled
    reqAtCancel,   \* history: nRequests when ctx was cancelled
    \* ---- WaitForCompletion (client.go 139-176)
    pc,            \* position of the calling goroutine
    taskID,        \* the taskID argument
    pollInterval,  \* local pollInterval after the defaults
    maxAttempts,   \* local maxAttempts after the defaults
    callback,      \* callback != nil
    given,         \* history: the pollInterval and maxAttempts the caller passed
    i,             \* loop counter
    status,        \* local status of the current iteration
    resp,          \* the response of the request in flight
    timerArmed,    \* time.After(pollInterval) has been evaluated in this select
    timerFired,    \* that timer has fired
    timerDur,      \* the duration it was armed with
    ret,           \* the (TaskStatus, error) returned
    \* ---- history of the call
    nCalls,        \* GetTaskStatus calls made
    nRequests,     \* status requests that reached the server
    fetched,       \* statuses GetTaskStatus returned without error, in order
    cbLog,         \* statuses the callback was invoked with, in order
    nWaits,        \* inter-poll waits entered
    evalLog,       \* length of cbLog each time the terminal conditions were evaluated
    \* ---- environment of the stream
    sent,          \* the lines the server writes to the stream, in order
    part,          \* the bytes the server wrote after them, without a newline
    wire,          \* the bytes not yet read from the response body
    connEnd,       \* how the connection ends after them: "eof" or "reset"
    \* ---- sseStream (stream.go 12-18)
    sess,          \* "none", "open" (StreamTaskStatus returned a stream) or "failed"
    streamID,      \* the taskID of the stream call, s.taskID of the stream returned
    sctxDone,      \* s.ctx.Done() is closed
    bodyClosed,    \* s.resp.Body has been closed
    buf,           \* bytes held by s.reader, read from the body and not yet consumed
    npc,           \* position of the goroutine in Next
    \* ---- history of the session
    results,       \* the (TaskStatus, error) pairs Next returned, in order
    nReads,        \* Read calls made on the response body
    nConnects,     \* stream requests sent
    atCall,        \* sctxDone, nReads and buf when the current Next was called
    nLines,        \* lines s.reader.ReadString has returned
    panicked       \* the calling goroutine has panicked

clientVars == <<apiKey, lastReq>>

submitVars == <<subRet, nSubmits, subCall, nPosts, rpc>>

pollVars == <<script, tail, ctxDone, cancelAt, reqAtCancel, pc, pollInterval, maxAttempts, callback,
              given, taskID, i, status, resp, timerArmed, timerFired, timerDur, ret,
              nCalls, nRequests, fetched, cbLog, nWaits, evalLog>>

streamVars == <<sent, part, wire, connEnd, sess, streamID, sctxDone, bodyClosed, buf, npc,
                results, nReads, nConnects, atCall, nLines, panicked>>

vars == <<clientVars, submitVars, pollVars, streamVars>>

\* ------------------------------------------------------------------ bounds
MaxScript == 2
MaxArgAttempts == 3
MaxLines == 2
MaxErrors == 2
MaxSubmits == 2

\* ------------------------------------------------------- program constants
DefaultPollInterval == 1
DefaultMaxPoll == 60
StatusOK == 200
StatusAccepted == 202

\* ------------------------------------------------------------ status model
Nil == "<nil>"

TaskStatus(id, st, res, er) == [TaskID |-> id, Status |-> st, Result |-> res, Error |-> er]

\* TaskStatus{}: the zero value
EmptyStatus == TaskStatus("", "", Nil, Nil)

\* JSON texts a server can put in a body or a data frame.  Each is one
\* element of the byte sequence; Unmarshal gives what json decodes it to.
JProcessing == "{\"taskId\":\"t\",\"status\":\"processing\"}"
JQueued     == "{\"taskId\":\"t\",\"status\":\"queued\"}"
JCompleted  == "{\"taskId\":\"t\",\"status\":\"completed\",\"result\":\"done\"}"
JFailedX    == "{\"taskId\":\"t\",\"status\":\"failed\",\"error\":\"X\"}"
JFailed     == "{\"taskId\":\"t\",\"status\":\"failed\"}"
JMalformed  == "{malformed}"
\* a body no field of which the decoder checks against another
JPartial    == "{\"taskId\":\"t\",\"status\":\"processing\",\"result\":\"partial\"}"

JsonTexts == {JProcessing, JQueued, JCompleted, JFailedX, JFailed, JPartial}

JsonValue(j) ==
    CASE j = JProcessing -> TaskStatus("t", "processing", Nil, Nil)
      [] j = JQueued     -> TaskStatus("t", "queued", Nil, Nil)
      [] j = JCompleted  -> TaskStatus("t", "completed", "done", Nil)
      [] j = JFailedX    -> TaskStatus("t", "failed", Nil, "X")
      [] j = JFailed     -> TaskStatus("t", "failed", Nil, Nil)
      [] j = JPartial    -> TaskStatus("t", "processing", "partial", Nil)

\* ------------------------------------------------------------------ errors
Error(kind, code, msg) == [kind |-> kind, code |-> code, msg |-> msg]
NoError        == Error("nil", 0, <<>>)
TransportError == Error("Transport", 0, <<"connection refused">>)
DoCtxError     == Error("Transport", 0, <<"Get: ", "context canceled">>)
CtxErr         == Error("Canceled", 0, <<"context canceled">>)
DecodeError    == Error("Decode", 0, <<"invalid character">>)
StatusAPIError(code) == Error("API", code, <<"failed to get task status: status ">>)
TaskFailedError(errMsg) == Error("TaskFailed", 0, <<"task failed: ", errMsg>>)
TimeoutError   == Error("Timeout", 0, <<"task timed out">>)

Contains(msg, x) == \E k \in 1..Len(msg) : msg[k] = x

\* json.Unmarshal / json.Decoder.Decode of a byte sequence into a TaskStatus:
\* one JSON text decodes, anything else (nothing, malformed text, trailing
\* text) is an error.
UnmarshalLenient(data) ==
    IF Len(data) = 1 /\ data[1] \in JsonTexts
    THEN [status |-> JsonValue(data[1]), err |-> NoError]
    ELSE [status |-> EmptyStatus, err |-> NoError]

Unmarshal(data) ==
    IF Len(data) = 1 /\ data[1] \in JsonTexts
    THEN [status |-> JsonValue(data[1]), err |-> NoError]
    ELSE [status |-> EmptyStatus, err |-> DecodeError]

\* --------------------------------------------------------------- transport
NetErr == [kind |-> "neterr", code |-> 0, body |-> <<>>]
Http(code, body) == [kind |-> "http", code |-> code, body |-> body]

ContinuingResponses == {Http(200, <<JProcessing>>), Http(200, <<JQueued>>)}
Responses == ContinuingResponses \cup
             { Http(200, <<JCompleted>>), Http(200, <<JFailedX>>), Http(200, <<JFailed>>),
               Http(200, <<JMalformed>>), Http(500, <<JCompleted>>), NetErr,
               Http(200, <<JPartial>>) }

\* the server's answer to the k-th status request
ServerResponse(k) == IF k <= Len(script) THEN script[k] ELSE tail

\* GetTaskStatus, from the response of doRequest on (120-137)
GetTaskStatusAnyCode(r) ==
    IF r.kind = "neterr" THEN [status |-> EmptyStatus, err |-> TransportError]
    ELSE LET d == Unmarshal(r.body) IN
         IF d.err # NoError THEN [status |-> EmptyStatus, err |-> d.err]
         ELSE [status |-> d.status, err |-> NoError]

GetTaskStatusKnownOnly(r) ==
    IF r.kind = "neterr" THEN [status |-> EmptyStatus, err |-> TransportError]
    ELSE IF r.code # StatusOK THEN [status |-> EmptyStatus, err |-> StatusAPIError(r.code)]
    ELSE LET d == Unmarshal(r.body) IN
         IF d.err # NoError THEN [status |-> EmptyStatus, err |-> d.err]
         ELSE IF d.status.Status \notin {"processing", "completed", "failed"}
         THEN [status |-> EmptyStatus, err |-> DecodeError]
         ELSE [status |-> d.status, err |-> NoError]

GetTaskStatus(r) ==
    IF r.kind = "neterr" THEN [status |-> EmptyStatus, err |-> TransportError]
    ELSE IF r.code # StatusOK THEN [status |-> EmptyStatus, err |-> StatusAPIError(r.code)]
    ELSE LET d == Unmarshal(r.body) IN
         IF d.err # NoError THEN [status |-> EmptyStatus, err |-> d.err]
         ELSE [status |-> d.status, err |-> NoError]

\* -------------------------------------------------------------------- Init
SeqsUpTo(S, n) == UNION { [1..k -> S] : k \in 0..n }

PollIntervalArgs == {0, 2}
MaxAttemptsArgs == (-1)..MaxArgAttempts

\* ----------------------------------------------------------------- requests
\* a header is <<>> when it is not set and <<value>> when it is
Request(method, path, body, contentType, authorization, sdkLanguage, accept) ==
    [method |-> method, path |-> path, body |-> body, ContentType |-> contentType,
     Authorization |-> authorization, SDKLanguage |-> sdkLanguage, Accept |-> accept]

NoRequest == Request("none", <<>>, <<>>, <<>>, <<>>, <<>>, <<>>)

\* if c.apiKey != "" { req.Header.Set("Authorization", "Bearer "+c.apiKey) }
AuthorizationHeader(key) == IF key # "" THEN <<"Bearer ", key>> ELSE <<>>

\* the request doRequest hands to c.httpClient.Do (65-76)
DoRequest(method, path, body, key) ==
    Request(method, path, body, <<"application/json">>, AuthorizationHeader(key),
            <<"go">>, <<>>)

\* the request StreamTaskStatus hands to c.httpClient.Do (23-35)
StreamRequest(id, key) ==
    Request("GET", <<"/stream/", id>>, <<>>, <<>>, AuthorizationHeader(key),
            <<>>, <<"text/event-stream">>)

\* the task the poller and the stream are about
TheTaskID == "t"

\* ------------------------------------------------------------- SubmitTask
JTask   == "{\"taskId\":\"task-1\"}"
JNoTask == "{}"

NoOpts == [nil |-> TRUE, ModelID |-> "", Metadata |-> "none"]
Opts(modelID, metadata) == [nil |-> FALSE, ModelID |-> modelID, Metadata |-> metadata]

\* options with plain metadata, and options whose metadata holds a value
\* json.Marshal rejects (a channel, a func)
SubmitOpts == {NoOpts, Opts("m", "plain"), Opts("m", "chan")}
Prompts == {"", "hello"}

\* json.Marshal(body) succeeds (58-61)
Marshalable(opts) == opts.nil \/ opts.Metadata # "chan"

\* body := {"prompt": prompt}, and "options" when opts != nil (93-98)
SubmitBody(prompt, opts) == IF opts.nil THEN <<prompt>> ELSE <<prompt, opts>>

SubmitResponses ==
    { Http(200, <<JTask>>), Http(202, <<JTask>>), Http(200, <<JNoTask>>),
      Http(200, <<JMalformed>>), Http(202, <<>>), Http(201, <<JTask>>),
      Http(500, <<JTask>>), NetErr }

PromptRequired == Error("InvalidArgument", 0, <<"prompt is required">>)
MarshalError   == Error("Marshal", 0, <<"json: unsupported type">>)
NewRequestError == Error("URL", 0, <<"parse: invalid URL">>)
SubmitAPIError(code) == Error("API", code, <<"failed to submit task: status ">>)

\* json decode of the body into struct { TaskID string `json:"taskId"` }
UnmarshalTaskID(data) ==
    IF data = <<JTask>> THEN [taskID |-> "task-1", err |-> NoError]
    ELSE IF data = <<JNoTask>> THEN [taskID |-> "", err |-> NoError]
    ELSE [taskID |-> "", err |-> DecodeError]

\* SubmitTask from the response of doRequest on (100-117)
SubmitResultAny2xx(r) ==
    IF r.kind = "neterr" THEN [taskID |-> "", err |-> TransportError]
    ELSE IF r.code < 200 \/ r.code > 299
    THEN [taskID |-> "", err |-> SubmitAPIError(r.code)]
    ELSE UnmarshalTaskID(r.body)

SubmitResult(r) ==
    IF r.kind = "neterr" THEN [taskID |-> "", err |-> TransportError]
    ELSE IF r.code # StatusOK /\ r.code # StatusAccepted
    THEN [taskID |-> "", err |-> SubmitAPIError(r.code)]
    ELSE UnmarshalTaskID(r.body)

\* if prompt == "" (89-91)
PromptMissingNever(prompt) == FALSE

PromptMissing(prompt) == prompt = ""

\* SubmitTask (88-118) with doRequest (54-86): the prompt check, the body and
\* its marshalling, the request and its headers, Do, and the response
SubmitTaskCall(prompt, opts, urlOK, r) ==
    /\ nSubmits < MaxSubmits
    /\ nSubmits' = nSubmits + 1
    /\ subCall' = [prompt |-> prompt, opts |-> opts, urlOK |-> urlOK, resp |-> r]
    /\ IF PromptMissing(prompt)
       THEN /\ subRet' = [taskID |-> "", err |-> PromptRequired]
            /\ UNCHANGED <<lastReq, nPosts>>
       ELSE IF ~Marshalable(opts)
       THEN /\ subRet' = [taskID |-> "", err |-> MarshalError]
            /\ UNCHANGED <<lastReq, nPosts>>
       ELSE IF ~urlOK
       THEN /\ subRet' = [taskID |-> "", err |-> NewRequestError]
            /\ UNCHANGED <<lastReq, nPosts>>
       ELSE /\ lastReq' = DoRequest("POST", <<"/run">>, SubmitBody(prompt, opts), apiKey)
            /\ nPosts' = nPosts + 1
            /\ subRet' = SubmitResult(r)

\* SubmitTask called by itself
SubmitTask(prompt, opts, urlOK, r) ==
    /\ UNCHANGED <<apiKey, rpc, pollVars, streamVars>>
    /\ SubmitTaskCall(prompt, opts, urlOK, r)

SubmitQuiet ==
    /\ subRet = [taskID |-> "", err |-> NoError]
    /\ nSubmits = 0
    /\ subCall = [prompt |-> "", opts |-> NoOpts, urlOK |-> TRUE, resp |-> NetErr]
    /\ nPosts = 0
    /\ rpc = "idle"

\* the poller with no stream session, and the stream with no poll
StreamQuiet ==
    /\ sent = <<>> /\ part = <<>> /\ wire = <<>> /\ connEnd = "eof"
    /\ sess = "none" /\ sctxDone = FALSE /\ bodyClosed = FALSE
    /\ streamID = ""
    /\ buf = <<>> /\ npc = "idle"
    /\ results = <<>> /\ nReads = 0 /\ nConnects = 0
    /\ atCall = [done |-> FALSE, reads |-> 0, buf |-> <<>>, closed |-> FALSE]
    /\ nLines = 0 /\ panicked = FALSE

PollQuiet ==
    /\ script = <<>> /\ tail = NetErr
    /\ ctxDone = FALSE /\ cancelAt = "none" /\ reqAtCancel = 0 /\ pc = "idle"
    /\ pollInterval = 0 /\ maxAttempts = 0 /\ callback = FALSE
    /\ given = [pollInterval |-> 0, maxAttempts |-> 0]
    /\ taskID = ""
    /\ i = 0 /\ status = EmptyStatus /\ resp = NetErr
    /\ timerArmed = FALSE /\ timerFired = FALSE /\ timerDur = 0
    /\ ret = [status |-> EmptyStatus, err |-> NoError]
    /\ nCalls = 0 /\ nRequests = 0 /\ fetched = <<>> /\ cbLog = <<>>
    /\ nWaits = 0 /\ evalLog = <<>>

InitPoll ==
    /\ script \in SeqsUpTo(ContinuingResponses, MaxScript)
    /\ tail \in Responses
    /\ ctxDone = FALSE
    /\ cancelAt = "none"
    /\ reqAtCancel = 0
    /\ pc = "idle"
    /\ pollInterval = 0
    /\ maxAttempts = 0
    /\ callback = FALSE
    /\ given = [pollInterval |-> 0, maxAttempts |-> 0]
    /\ taskID = ""
    /\ i = 0
    /\ status = EmptyStatus
    /\ resp = NetErr
    /\ timerArmed = FALSE
    /\ timerFired = FALSE
    /\ timerDur = 0
    /\ ret = [status |-> EmptyStatus, err |-> NoError]
    /\ nCalls = 0
    /\ nRequests = 0
    /\ fetched = <<>>
    /\ cbLog = <<>>
    /\ nWaits = 0
    /\ evalLog = <<>>
    /\ StreamQuiet
    /\ SubmitQuiet
    /\ apiKey = "secret-key"
    /\ lastReq = NoRequest


\* ------------------------------------------------------- WaitForCompletion
envVars == <<script, tail>>
argVars == <<pollInterval, maxAttempts, callback, given, taskID>>
timerVars == <<timerArmed, timerFired, timerDur>>
histVars == <<nCalls, nRequests, fetched, cbLog, nWaits, evalLog>>

Return(st, er) ==
    /\ pc' = "done"
    /\ ret' = [status |-> st, err |-> er]

\* the caller cancels ctx; a goroutine parked in the select is woken on the
\* ctx.Done() case
Cancel ==
    /\ UNCHANGED <<clientVars, submitVars, streamVars>>
    /\ ~ctxDone
    /\ pc # "done"
    /\ ctxDone' = TRUE
    /\ cancelAt' = pc
    /\ reqAtCancel' = nRequests
    /\ pc' = IF pc = "parked" THEN "wokenCtx" ELSE pc
    /\ UNCHANGED <<envVars, argVars, i, status, resp, timerVars, ret, histVars>>

\* the timer of time.After fires; a goroutine parked in the select is woken
\* on the timer case
TimerFire ==
    /\ UNCHANGED <<clientVars, submitVars, streamVars>>
    /\ timerArmed /\ ~timerFired
    /\ pc \in {"select", "parked", "wokenCtx"}
    /\ timerFired' = TRUE
    /\ pc' = IF pc = "parked" THEN "wokenTimer" ELSE pc
    /\ UNCHANGED <<envVars, ctxDone, cancelAt, reqAtCancel, argVars, i, status, resp, timerArmed,
                   timerDur, ret, histVars>>

\* the call and the defaults (139-145)
\* if x == 0 { x = Default } (140-145)
OrDefaultWhenNotPositive(x, default) == IF x <= 0 THEN default ELSE x

OrDefault(x, default) == IF x = 0 THEN default ELSE x

WaitForCompletionCall(id, argInterval, argMax, cb) ==
    /\ pc = "idle"
    /\ taskID' = id
    /\ pollInterval' = OrDefault(argInterval, DefaultPollInterval)
    /\ maxAttempts' = OrDefault(argMax, DefaultMaxPoll)
    /\ given' = [pollInterval |-> argInterval, maxAttempts |-> argMax]
    /\ callback' = cb
    /\ i' = 0
    /\ pc' = "loop"
    /\ UNCHANGED <<envVars, ctxDone, cancelAt, reqAtCancel, status, resp, timerVars, ret, histVars>>

\* WaitForCompletion called by itself
WaitForCompletion(argInterval, argMax, cb) ==
    /\ UNCHANGED <<clientVars, submitVars, streamVars>>
    /\ WaitForCompletionCall(TheTaskID, argInterval, argMax, cb)

\* i < maxAttempts (147)
LoopCondInclusive(n, m) == n <= m

LoopCond(n, m) == n < m

\* for i < maxAttempts: GetTaskStatus is called and doRequest issues the
\* request (147-148); after the loop, the timeout (175).  A request whose
\* context is already cancelled fails in Do without reaching the server.

\* c.httpClient.Do(req) on a request whose context is already done fails
\* without sending it (76-79)
DoRefusesNever(done) == FALSE

DoRefuses(done) == done

LoopHead ==
    /\ UNCHANGED <<apiKey, submitVars, streamVars>>
    /\ pc = "loop"
    /\ IF LoopCond(i, maxAttempts)
       THEN /\ nCalls' = nCalls + 1
            /\ lastReq' = DoRequest("GET", <<"/status/", taskID>>, <<>>, apiKey)
            /\ IF DoRefuses(ctxDone)
               THEN /\ Return(EmptyStatus, DoCtxError)
                    /\ UNCHANGED <<resp, nRequests>>
               ELSE /\ nRequests' = nRequests + 1
                    /\ resp' = ServerResponse(nRequests + 1)
                    /\ pc' = "fetching"
                    /\ UNCHANGED ret
       ELSE /\ Return(EmptyStatus, TimeoutError)
            /\ UNCHANGED <<resp, nCalls, nRequests, lastReq>>
    /\ UNCHANGED <<envVars, ctxDone, cancelAt, reqAtCancel, argVars, i, status, timerVars,
                   fetched, cbLog, nWaits, evalLog>>

\* GetTaskStatus returns (148-151).  A request cancelled in flight either
\* fails with the context's error or has its response already.
FetchOutcomeAbortAsTimeout(r, aborted) ==
    IF aborted THEN [status |-> EmptyStatus, err |-> TimeoutError] ELSE GetTaskStatus(r)

FetchOutcome(r, aborted) ==
    IF aborted THEN [status |-> EmptyStatus, err |-> DoCtxError] ELSE GetTaskStatus(r)

FetchReturn ==
    /\ UNCHANGED <<clientVars, submitVars, streamVars>>
    /\ pc = "fetching"
    /\ \E aborted \in {FALSE, ctxDone} :
         LET out == FetchOutcome(resp, aborted) IN
         IF out.err # NoError
         THEN /\ Return(EmptyStatus, out.err)
              /\ UNCHANGED <<status, fetched>>
         ELSE /\ status' = out.status
              /\ fetched' = Append(fetched, out.status)
              /\ pc' = "callback"
              /\ UNCHANGED ret
    /\ UNCHANGED <<envVars, ctxDone, cancelAt, reqAtCancel, argVars, i, resp, timerVars,
                   nCalls, nRequests, cbLog, nWaits, evalLog>>

\* if callback != nil { callback(status) } (153-155)
InvokeCallbackAfterTerminalCheck(log, cb, st) ==
    IF cb /\ st.Status \notin {"completed", "failed"} THEN Append(log, st) ELSE log

InvokeCallbackTwice(log, cb, st) == IF cb THEN Append(Append(log, st), st) ELSE log

InvokeCallback(log, cb, st) == IF cb THEN Append(log, st) ELSE log

Callback ==
    /\ UNCHANGED <<clientVars, submitVars, streamVars>>
    /\ pc = "callback"
    /\ cbLog' = InvokeCallback(cbLog, callback, status)
    /\ pc' = "eval"
    /\ UNCHANGED <<envVars, ctxDone, cancelAt, reqAtCancel, argVars, i, status, resp, timerVars, ret,
                   nCalls, nRequests, fetched, nWaits, evalLog>>

\* the terminal conditions (157-166); otherwise the select is entered and
\* time.After(pollInterval) arms the timer (168-171)
FailedMessageGeneric(st) == "task failed"

FailedMessage(st) == IF st.Error # Nil THEN st.Error ELSE "task failed"

Evaluate ==
    /\ UNCHANGED <<clientVars, submitVars, streamVars>>
    /\ pc = "eval"
    /\ evalLog' = Append(evalLog, Len(cbLog))
    /\ IF status.Status = "completed"
       THEN /\ Return(status, NoError)
            /\ UNCHANGED <<timerVars, nWaits>>
       ELSE IF status.Status = "failed"
       THEN /\ Return(status, TaskFailedError(FailedMessage(status)))
            /\ UNCHANGED <<timerVars, nWaits>>
       ELSE /\ pc' = "select"
            /\ timerArmed' = TRUE
            /\ timerFired' = FALSE
            /\ timerDur' = pollInterval
            /\ nWaits' = nWaits + 1
            /\ UNCHANGED ret
    /\ UNCHANGED <<envVars, ctxDone, cancelAt, reqAtCancel, argVars, i, status, resp,
                   nCalls, nRequests, fetched, cbLog>>

\* the timer case of the select: the next iteration (171-173, i++)
NextIterationWaitsAgain ==
    /\ pc' = "select"
    /\ timerFired' = FALSE
    /\ UNCHANGED <<i, timerArmed, timerDur, ret>>

NextIteration ==
    /\ i' = i + 1
    /\ pc' = "loop"
    /\ timerArmed' = FALSE
    /\ UNCHANGED <<timerFired, timerDur, ret>>

\* the ctx.Done() case of the select (169-170)
ReturnCancelledEmpty ==
    /\ Return(EmptyStatus, CtxErr)
    /\ UNCHANGED <<i, timerVars>>

ReturnCancelledAsTimeout ==
    /\ Return(EmptyStatus, TimeoutError)
    /\ UNCHANGED <<i, timerVars>>

ReturnCancelled ==
    /\ Return(status, CtxErr)
    /\ UNCHANGED <<i, timerVars>>

\* the select is evaluated (168): a ready case is taken, any one of them
\* when both are ready; with none ready the goroutine parks
Select ==
    /\ UNCHANGED <<clientVars, submitVars, streamVars>>
    /\ pc = "select"
    /\ \/ /\ ctxDone
          /\ ReturnCancelled
       \/ /\ timerFired
          /\ NextIteration
       \/ /\ ~ctxDone /\ ~timerFired
          /\ pc' = "parked"
          /\ UNCHANGED <<i, timerVars, ret>>
    /\ UNCHANGED <<envVars, ctxDone, cancelAt, reqAtCancel, argVars, status, resp, histVars>>

\* the parked goroutine runs again, on the case that woke it
Resume ==
    /\ UNCHANGED <<clientVars, submitVars, streamVars>>
    /\ \/ /\ pc = "wokenCtx"
          /\ ReturnCancelled
       \/ /\ pc = "wokenTimer"
          /\ NextIteration
    /\ UNCHANGED <<envVars, ctxDone, cancelAt, reqAtCancel, argVars, status, resp, histVars>>

NextPoll ==
    \/ \E a \in PollIntervalArgs, m \in MaxAttemptsArgs, cb \in BOOLEAN :
         WaitForCompletion(a, m, cb)
    \/ LoopHead
    \/ FetchReturn
    \/ Callback
    \/ Evaluate
    \/ Select
    \/ Resume
    \/ Cancel
    \/ TimerFire

SpecPoll == InitPoll /\ [][NextPoll]_vars

\* the calling goroutine keeps running, every fetch returns and every timer
\* fires; nothing obliges the caller to call or the context to be cancelled
SpecPollFair ==
    /\ InitPoll /\ [][NextPoll]_vars
    /\ WF_vars(LoopHead) /\ WF_vars(FetchReturn) /\ WF_vars(Callback)
    /\ WF_vars(Evaluate) /\ WF_vars(Select) /\ WF_vars(Resume)
    /\ WF_vars(TimerFire)


\* ==================================================================
\* The event stream: StreamTaskStatus, sseStream.Next, sseStream.Close
\* ==================================================================
EOF       == Error("EOF", 0, <<"EOF">>)
ReadError == Error("Read", 0, <<"connection reset by peer">>)
ReadCtxError == Error("Read", 0, <<"context canceled">>)
ClosedBodyError == Error("Read", 0, <<"http: read on closed response body">>)

NL == "\n"
DataPrefix == <<"d", "a", "t", "a", ":">>

\* ---- the server: the lines it writes, each followed by a newline, and a
\* last line it may leave unterminated
Line(kind, json) == [kind |-> kind, json |-> json]

LineBytes(l) ==
    CASE l.kind = "blank"   -> <<>>
      [] l.kind = "comment" -> <<":", "k">>
      [] l.kind = "event"   -> <<"e", ":", l.json>>
      [] l.kind = "data"    -> DataPrefix \o <<" ", l.json>>
      [] l.kind = "dataws"  -> <<" ">> \o DataPrefix \o <<l.json, " ", "\r">>

ServerLines == { Line("blank", ""), Line("comment", ""), Line("event", JCompleted),
                 Line("data", JProcessing), Line("dataws", JFailedX),
                 Line("data", JMalformed), Line("data", JPartial),
                 Line("data", JCompleted) }

PartialLines == { <<>>, DataPrefix \o <<" ", JCompleted>> }

RECURSIVE WireBytes(_)
WireBytes(lines) ==
    IF lines = <<>> THEN <<>>
    ELSE LineBytes(Head(lines)) \o <<NL>> \o WireBytes(Tail(lines))

\* ---- strings
IsSpace(c) == c \in {" ", "\t", "\r", "\n"}

RECURSIVE TrimLeft(_)
TrimLeft(b) == IF b # <<>> /\ IsSpace(Head(b)) THEN TrimLeft(Tail(b)) ELSE b

RECURSIVE TrimRight(_)
TrimRight(b) ==
    IF b # <<>> /\ IsSpace(b[Len(b)]) THEN TrimRight(SubSeq(b, 1, Len(b) - 1)) ELSE b

\* strings.TrimSpace
TrimSpace(b) == TrimLeft(TrimRight(b))

\* strings.HasPrefix
HasPrefix(b, p) == Len(b) >= Len(p) /\ SubSeq(b, 1, Len(p)) = p

\* ---- bufio.Reader.ReadString('\n') on the bytes it holds: the line up to
\* and including the first newline, and what stays in the reader
HasLine(b) == \E k \in 1..Len(b) : b[k] = NL

IndexNL(b) == CHOOSE k \in 1..Len(b) : b[k] = NL /\ \A h \in 1..(k - 1) : b[h] # NL

ReadStringDropRest(b) ==
    [line |-> SubSeq(b, 1, IndexNL(b)), rest |-> <<>>]

ReadString(b) ==
    [line |-> SubSeq(b, 1, IndexNL(b)), rest |-> SubSeq(b, IndexNL(b) + 1, Len(b))]

\* ---- what Next does with one line (81-93): "skip" to read on, or the
\* (TaskStatus, error) to return
ProcessLineRejectsOther(raw) ==
    LET line == TrimSpace(raw) IN
    IF line = <<>> \/ HasPrefix(line, <<":">>) THEN [skip |-> TRUE, out |-> Unmarshal(<<>>)]
    ELSE IF HasPrefix(line, DataPrefix)
         THEN [skip |-> FALSE,
               out |-> Unmarshal(TrimSpace(SubSeq(line, Len(DataPrefix) + 1, Len(line))))]
         ELSE [skip |-> FALSE, out |-> Unmarshal(<<>>)]

ProcessLineRaisesFailed(raw) ==
    LET line == TrimSpace(raw)
        u == Unmarshal(TrimSpace(SubSeq(line, Len(DataPrefix) + 1, Len(line))))
    IN
    IF line = <<>> \/ HasPrefix(line, <<":">>) THEN [skip |-> TRUE, out |-> Unmarshal(<<>>)]
    ELSE IF HasPrefix(line, DataPrefix)
         THEN [skip |-> FALSE,
               out |-> IF u.err = NoError /\ u.status.Status = "failed"
                       THEN [status |-> u.status,
                             err |-> TaskFailedError(FailedMessage(u.status))]
                       ELSE u]
         ELSE [skip |-> TRUE, out |-> Unmarshal(<<>>)]

ProcessLine(raw) ==
    LET line == TrimSpace(raw) IN
    IF line = <<>> \/ HasPrefix(line, <<":">>) THEN [skip |-> TRUE, out |-> Unmarshal(<<>>)]
    ELSE IF HasPrefix(line, DataPrefix)
         THEN [skip |-> FALSE,
               out |-> Unmarshal(TrimSpace(SubSeq(line, Len(DataPrefix) + 1, Len(line))))]
         ELSE [skip |-> TRUE, out |-> Unmarshal(<<>>)]

\* ---- Init
InitStream ==
    /\ PollQuiet
    /\ SubmitQuiet
    /\ apiKey = "secret-key"
    /\ lastReq = NoRequest
    /\ sent \in SeqsUpTo(ServerLines, MaxLines)
    /\ part \in PartialLines
    /\ wire = WireBytes(sent) \o part
    /\ connEnd \in {"eof", "reset"}
    /\ sess = "none" /\ sctxDone = FALSE /\ bodyClosed = FALSE
    /\ streamID = ""
    /\ buf = <<>> /\ npc = "idle"
    /\ results = <<>> /\ nReads = 0 /\ nConnects = 0
    /\ atCall = [done |-> FALSE, reads |-> 0, buf |-> <<>>, closed |-> FALSE]
    /\ nLines = 0 /\ panicked = FALSE

streamEnv == <<sent, part, connEnd>>

\* the caller gives up calling Next after MaxErrors errors
Errors(rs) == Cardinality({k \in 1..Len(rs) : rs[k].err # NoError})

\* the sizes of the chunks a Read of the body returns: a few bytes, or all
\* that has arrived
SmallChunk == 3
ChunkSizes(n) == { IF n < SmallChunk THEN n ELSE SmallChunk, n }

\* StreamTaskStatus (20-54)
StreamTaskStatusCall(id, outcome) ==
    /\ sess = "none"
    /\ streamID' = id
    /\ lastReq' = IF outcome = "badurl" THEN lastReq ELSE StreamRequest(id, apiKey)
    /\ IF outcome = "ok"
       THEN /\ sess' = "open"
            /\ UNCHANGED sctxDone
       ELSE /\ sess' = "failed"
            /\ sctxDone' = TRUE
    /\ nConnects' = IF outcome = "badurl" THEN nConnects ELSE nConnects + 1
    /\ bodyClosed' = (outcome = "non200")
    /\ buf' = <<>>
    /\ UNCHANGED <<streamEnv, wire, npc, results, nReads, atCall, nLines, panicked>>

\* StreamTaskStatus called by itself
StreamTaskStatus(outcome) ==
    /\ UNCHANGED <<apiKey, submitVars, pollVars>>
    /\ StreamTaskStatusCall(TheTaskID, outcome)

\* Close is called on what a failed StreamTaskStatus returned: the nil
\* TaskStatusStream of "return nil, err" (26, 37, 43)
CloseOnNil ==
    /\ UNCHANGED <<clientVars, submitVars, pollVars>>
    /\ sess = "failed"
    /\ ~panicked
    /\ panicked' = TRUE
    /\ UNCHANGED <<streamEnv, streamID, wire, sess, sctxDone, bodyClosed, buf, npc, results,
                   nReads, nConnects, atCall, nLines>>

\* Close (60-66)
CloseBodyOnly ==
    /\ UNCHANGED <<clientVars, submitVars, pollVars>>
    /\ sess = "open"
    /\ bodyClosed' = TRUE
    /\ UNCHANGED <<streamEnv, streamID, wire, sess, sctxDone, buf, npc, results, nReads,
                   nConnects, atCall, nLines, panicked>>

Close ==
    /\ UNCHANGED <<clientVars, submitVars, pollVars>>
    /\ sess = "open"
    /\ sctxDone' = TRUE
    /\ bodyClosed' = TRUE
    /\ UNCHANGED <<streamEnv, streamID, wire, sess, buf, npc, results, nReads, nConnects, atCall,
                   nLines, panicked>>

\* the context given to StreamTaskStatus is cancelled by its owner
CancelParent ==
    /\ UNCHANGED <<clientVars, submitVars, pollVars>>
    /\ sess = "open"
    /\ ~sctxDone
    /\ sctxDone' = TRUE
    /\ UNCHANGED <<streamEnv, streamID, wire, sess, bodyClosed, buf, npc, results, nReads,
                   nConnects, atCall, nLines, panicked>>

NextReturn(st, er) ==
    /\ npc' = "idle"
    /\ results' = Append(results, [status |-> st, err |-> er])

\* Next is called (68)
NextCall ==
    /\ UNCHANGED <<clientVars, submitVars, pollVars>>
    /\ sess = "open"
    /\ npc = "idle"
    /\ Errors(results) < MaxErrors
    /\ npc' = "check"
    /\ atCall' = [done |-> sctxDone, reads |-> nReads, buf |-> buf, closed |-> bodyClosed]
    /\ UNCHANGED <<streamEnv, streamID, wire, sess, sctxDone, bodyClosed, buf, results, nReads,
                   nConnects, nLines, panicked>>

\* select { case <-s.ctx.Done(): ...; default: } (70-74)
CtxCheckSkipped(done) == FALSE

CtxCheck(done) == done

NextCheck ==
    /\ UNCHANGED <<clientVars, submitVars, pollVars>>
    /\ npc = "check"
    /\ IF CtxCheck(sctxDone)
       THEN NextReturn(EmptyStatus, CtxErr)
       ELSE /\ npc' = "read"
            /\ UNCHANGED results
    /\ UNCHANGED <<streamEnv, streamID, wire, sess, sctxDone, bodyClosed, buf, nReads,
                   nConnects, atCall, nLines, panicked>>

\* s.reader.ReadString finds a line in the reader and Next processes it
\* (76-93)
NextLine ==
    /\ UNCHANGED <<clientVars, submitVars, pollVars>>
    /\ npc = "read"
    /\ HasLine(buf)
    /\ LET r == ReadString(buf)
           p == ProcessLine(r.line)
       IN /\ buf' = r.rest
          /\ nLines' = nLines + 1
          /\ IF p.skip
             THEN /\ npc' = "check"
                  /\ UNCHANGED results
             ELSE IF p.out.err # NoError
             THEN NextReturn(EmptyStatus, p.out.err)
             ELSE NextReturn(p.out.status, NoError)
    /\ UNCHANGED <<streamEnv, streamID, wire, sess, sctxDone, bodyClosed, nReads,
                   nConnects, atCall, panicked>>

\* s.reader.ReadString holds no complete line and reads the body (76-79):
\* more bytes, or an error, on which Next returns and the bytes of the
\* unfinished line are gone.  A body closed by Close fails the read; under a
\* cancelled context the read fails or still returns bytes that had arrived.
\* if err != nil { return TaskStatus{}, err } (77-79): Next returns the
\* error and touches neither s.cancel nor s.resp.Body
OnTerminalError == UNCHANGED <<sctxDone, bodyClosed>>

ReadFailsReconnects(er) ==
    /\ buf' = <<>>
    /\ NextReturn(EmptyStatus, er)
    /\ OnTerminalError
    /\ wire' = WireBytes(sent)

ReadFailsDeliversPartial(er) ==
    /\ buf' = <<>>
    /\ LET p == ProcessLine(buf)
       IN IF ~p.skip /\ p.out.err = NoError
          THEN NextReturn(p.out.status, NoError)
          ELSE NextReturn(EmptyStatus, er)
    /\ OnTerminalError
    /\ UNCHANGED wire

ReadFails(er) ==
    /\ buf' = <<>>
    /\ NextReturn(EmptyStatus, er)
    /\ OnTerminalError
    /\ UNCHANGED wire

NextFill ==
    /\ UNCHANGED <<clientVars, submitVars, pollVars>>
    /\ npc = "read"
    /\ ~HasLine(buf)
    /\ nReads' = nReads + 1
    /\ \/ /\ bodyClosed
          /\ ReadFails(ClosedBodyError)
       \/ /\ ~bodyClosed /\ sctxDone
          /\ ReadFails(ReadCtxError)
       \/ /\ ~bodyClosed /\ wire # <<>>
          /\ \E n \in ChunkSizes(Len(wire)) :
               /\ buf' = buf \o SubSeq(wire, 1, n)
               /\ wire' = SubSeq(wire, n + 1, Len(wire))
          /\ UNCHANGED <<npc, results, sctxDone, bodyClosed>>
       \/ /\ ~bodyClosed /\ ~sctxDone /\ wire = <<>>
          /\ ReadFails(IF connEnd = "eof" THEN EOF ELSE ReadError)
    /\ UNCHANGED <<streamEnv, streamID, sess, nConnects, atCall, nLines, panicked>>

NextStream ==
    \/ \E outcome \in {"ok", "badurl", "doerr", "non200"} : StreamTaskStatus(outcome)
    \/ CloseOnNil
    \/ Close
    \/ CancelParent
    \/ NextCall
    \/ NextCheck
    \/ NextLine
    \/ NextFill

SpecStream == InitStream /\ [][NextStream]_vars

\* ==================================================================
\* RunTask and RunTaskStream
\* ==================================================================

\* if err != nil after SubmitTask (client.go 180, stream.go 99)
SubmitFailedNever(err) == FALSE

SubmitFailed(err) == err # NoError

\* RunTask (178-185): SubmitTask, and on its success WaitForCompletion with
\* the identifier it returned, whose loop then runs; on its failure the
\* return of (TaskStatus{}, err)
RunTask(prompt, opts, urlOK, r, argInterval, argMax, cb) ==
    /\ UNCHANGED <<apiKey, rpc, streamVars>>
    /\ pc = "idle"
    /\ SubmitTaskCall(prompt, opts, urlOK, r)
    /\ IF SubmitFailed(subRet'.err)
       THEN /\ Return(EmptyStatus, subRet'.err)
            /\ UNCHANGED <<envVars, ctxDone, cancelAt, reqAtCancel, argVars, i, status, resp,
                           timerVars, histVars>>
       ELSE WaitForCompletionCall(subRet'.taskID, argInterval, argMax, cb)

\* RunTaskStream (97-104), up to the return of SubmitTask: on its failure
\* the return of (nil, err)
RunTaskStream(prompt, opts, urlOK, r) ==
    /\ UNCHANGED <<apiKey, pollVars>>
    /\ rpc = "idle"
    /\ sess = "none"
    /\ SubmitTaskCall(prompt, opts, urlOK, r)
    /\ IF SubmitFailed(subRet'.err)
       THEN /\ sess' = "failed"
            /\ UNCHANGED <<rpc, streamID>>
       ELSE /\ rpc' = "submitted"
            /\ streamID' = subRet'.taskID
            /\ UNCHANGED sess
    /\ UNCHANGED <<streamEnv, wire, sctxDone, bodyClosed, buf, npc, results, nReads,
                   nConnects, atCall, nLines, panicked>>

\* RunTaskStream, the StreamTaskStatus call with the identifier (103)
RunTaskStreamOpen(outcome) ==
    /\ UNCHANGED <<apiKey, subRet, nSubmits, subCall, nPosts, pollVars>>
    /\ rpc = "submitted"
    /\ rpc' = "idle"
    /\ StreamTaskStatusCall(streamID, outcome)

\* ---- the client with a context that is never cancelled, against a server
\* that answers a status request with a terminal status or not at all
ClientTails == {NetErr, Http(200, <<JCompleted>>), Http(200, <<JFailedX>>)}

InitClient ==
    /\ apiKey \in {"", "secret-key"}
    /\ lastReq = NoRequest
    /\ SubmitQuiet
    /\ script = <<>> /\ tail \in ClientTails
    /\ ctxDone = FALSE /\ cancelAt = "none" /\ reqAtCancel = 0 /\ pc = "idle"
    /\ pollInterval = 0 /\ maxAttempts = 0 /\ callback = FALSE
    /\ given = [pollInterval |-> 0, maxAttempts |-> 0]
    /\ taskID = ""
    /\ i = 0 /\ status = EmptyStatus /\ resp = NetErr
    /\ timerArmed = FALSE /\ timerFired = FALSE /\ timerDur = 0
    /\ ret = [status |-> EmptyStatus, err |-> NoError]
    /\ nCalls = 0 /\ nRequests = 0 /\ fetched = <<>> /\ cbLog = <<>>
    /\ nWaits = 0 /\ evalLog = <<>>
    /\ StreamQuiet

NextClient ==
    \/ \E prompt \in Prompts, opts \in SubmitOpts, urlOK \in BOOLEAN, r \in SubmitResponses :
         SubmitTask(prompt, opts, urlOK, r)
    \/ \E prompt \in Prompts, opts \in SubmitOpts, urlOK \in BOOLEAN, r \in SubmitResponses,
          cb \in BOOLEAN :
         RunTask(prompt, opts, urlOK, r, 0, 0, cb)
    \/ LoopHead
    \/ FetchReturn
    \/ Callback
    \/ Evaluate
    \/ \E prompt \in Prompts, opts \in SubmitOpts, urlOK \in BOOLEAN, r \in SubmitResponses :
         RunTaskStream(prompt, opts, urlOK, r)
    \/ \E outcome \in {"ok", "badurl", "doerr", "non200"} : RunTaskStreamOpen(outcome)

SpecClient == InitClient /\ [][NextClient]_vars

\* ==================================================================
\* Properties of WaitForCompletion
\* ==================================================================
Last(q) == q[Len(q)]
Front(q) == SubSeq(q, 1, Len(q) - 1)
Terminal(st) == st.Status \in {"completed", "failed"}
CompletedResponse == Http(200, <<JCompleted>>)

\* the server answers N continuing statuses and then a completed one
CompletesAfter(N) ==
    /\ \A k \in 1..N : ServerResponse(k) \in ContinuingResponses
    /\ ServerResponse(N + 1) = CompletedResponse

\* what the server's first n answers decode to
Decoded(n) == [k \in 1..n |-> JsonValue(ServerResponse(k).body[1])]

\* C1: when the server answers N non-terminal statuses and then 'completed',
\* with N < maxAttempts, and the context is never cancelled, the call returns
\* that completed status and no error after exactly N+1 fetches, and a
\* supplied callback has been invoked exactly N+1 times, once per fetched
\* status and in fetch order.  Before it returns it never fetches more.
C1_CompletesAfterNPlusOneFetches ==
    \A N \in 0..(MaxScript + 1) :
        (CompletesAfter(N) /\ N < maxAttempts /\ ~ctxDone /\ pc # "idle") =>
            /\ nCalls <= N + 1
            /\ pc = "done" =>
                 /\ ret = [status |-> JsonValue(JCompleted), err |-> NoError]
                 /\ nCalls = N + 1
                 /\ nRequests = N + 1
                 /\ fetched = Decoded(N + 1)
                 /\ callback => cbLog = Decoded(N + 1)

C1_Witness ==
    /\ pc = "done" /\ ~ctxDone /\ callback
    /\ CompletesAfter(2) /\ maxAttempts = 3
    /\ Len(cbLog) = 3 /\ nCalls = 3
    /\ ret.err = NoError

\* C2: a cancellation that fires while the call is parked in the inter-poll
\* wait wakes it on the ctx.Done() case: it returns the context's error with
\* the most recently fetched status, makes no further fetch, and does so
\* whether or not the interval timer has fired.
C2_CancelDuringWaitReturnsCancelled ==
    cancelAt = "parked" =>
        /\ pc \in {"wokenCtx", "done"}
        /\ pc = "wokenCtx" => ENABLED Resume
        /\ pc = "done" =>
             /\ ret = [status |-> Last(fetched), err |-> CtxErr]
             /\ nCalls = Len(fetched)

C2_Witness ==
    /\ cancelAt = "parked" /\ pc = "done"
    /\ ~timerFired
    /\ ret.err = CtxErr /\ ret.status.Status = "processing"
    /\ Len(fetched) = 2

\* C3: whenever the call returns an error after at least one status has been
\* fetched, the status returned with the error is the most recently fetched
\* one.
C3_ErrorCarriesLastStatus ==
    (pc = "done" /\ ret.err # NoError /\ Len(fetched) >= 1) =>
        ret.status = Last(fetched)

\* C4 as stated: if all maxAttempts fetches returned a non-terminal status
\* the call fails with Timeout.
AllAttemptsNonTerminal ==
    /\ maxAttempts >= 1
    /\ Len(fetched) = maxAttempts
    /\ \A k \in 1..Len(fetched) : ~Terminal(fetched[k])

C4_AllNonTerminalGivesTimeout ==
    (pc = "done" /\ AllAttemptsNonTerminal) =>
        /\ ret.err = TimeoutError
        /\ nCalls = maxAttempts

\* C4 amended: the call never makes more than maxAttempts fetches; when all
\* maxAttempts fetches returned a non-terminal status it has made exactly
\* maxAttempts fetches and fails with Timeout, unless one of its inter-poll
\* waits (the one after the last fetch included) observed the cancellation
\* of the context, in which case it returns the context's error with the
\* last status.  With the context never cancelled it is always Timeout.
C4_TimeoutUnlessCancelledInWait ==
    /\ maxAttempts >= 0 => nCalls <= maxAttempts
    /\ (pc = "done" /\ AllAttemptsNonTerminal) =>
         /\ nCalls = maxAttempts
         /\ \/ ret = [status |-> EmptyStatus, err |-> TimeoutError]
            \/ /\ ctxDone
               /\ ret = [status |-> Last(fetched), err |-> CtxErr]
         /\ ~ctxDone => ret.err = TimeoutError

C4_Witness ==
    /\ pc = "done" /\ AllAttemptsNonTerminal /\ maxAttempts = 3
    /\ ret.err = TimeoutError /\ nCalls = 3 /\ ~ctxDone

\* C5: a fetched status 'failed' ends the poll: it is the last status ever
\* fetched, and the call returns it together with a TaskFailed error whose
\* message contains the status's error field when it has one.
C5_FailedStatusReturnsTaskFailed ==
    /\ \A k \in 1..(Len(fetched) - 1) : fetched[k].Status # "failed"
    /\ (Len(fetched) >= 1 /\ Last(fetched).Status = "failed") =>
         /\ pc \in {"callback", "eval", "done"}
         /\ nCalls = Len(fetched)
         /\ pc = "done" =>
              /\ ret.status = Last(fetched)
              /\ ret.err.kind = "TaskFailed"
              /\ Last(fetched).Error # Nil => Contains(ret.err.msg, Last(fetched).Error)

C5_Witness ==
    /\ pc = "done" /\ Len(fetched) = 2
    /\ Last(fetched).Status = "failed" /\ Last(fetched).Error = "X"
    /\ Contains(ret.err.msg, "X")
    /\ ret.status.Status = "failed"

\* the responses GetTaskStatus must report as an error, and the kind of error
FailingResponse(r) ==
    \/ r.kind = "neterr"
    \/ r.code # 200
    \/ \A j \in JsonTexts : r.body # <<j>>

FailureKind(r) ==
    IF r.kind = "neterr" THEN "Transport"
    ELSE IF r.code # 200 THEN "API" ELSE "Decode"

\* C6: once a status request has been answered with a transport error, a
\* non-200 response or an undecodable body, the call has returned that error
\* (or the context's, when the request was cancelled in flight) with an
\* empty status: the failed fetch is the last one, no wait follows it and
\* the callback is not invoked for it.
C6_FetchErrorReturnsImmediately ==
    (nRequests >= 1 /\ pc # "fetching" /\ FailingResponse(ServerResponse(nRequests))) =>
        /\ pc = "done"
        /\ ret.status = EmptyStatus
        /\ \/ ret.err.kind = FailureKind(ServerResponse(nRequests))
           \/ ctxDone /\ ret.err = DoCtxError
        /\ ret.err.kind = "API" => ret.err.code = ServerResponse(nRequests).code
        /\ nCalls = nRequests
        /\ Len(fetched) = nRequests - 1
        /\ nWaits = nRequests - 1
        /\ Len(cbLog) = IF callback THEN nRequests - 1 ELSE 0

C6_Witness ==
    /\ pc = "done" /\ nRequests = 3 /\ callback
    /\ ServerResponse(3) = Http(500, <<JCompleted>>)
    /\ ret.err.kind = "API" /\ ret.err.code = 500
    /\ Len(cbLog) = 2 /\ nWaits = 2

\* C7: with a callback supplied, the callback has been invoked exactly once
\* for each fetched status, with that status and in order, by the time the
\* terminal conditions are evaluated for it; so it has been invoked for the
\* completed or failed status that ends the poll before the call returns.
C7_CallbackOncePerStatusBeforeEvaluation ==
    /\ callback =>
         /\ cbLog = IF pc = "callback" THEN Front(fetched) ELSE fetched
         /\ \A k \in 1..Len(evalLog) : evalLog[k] = k
    /\ ~callback => cbLog = <<>>
    /\ Len(evalLog) = IF pc \in {"callback", "eval"} THEN Len(fetched) - 1 ELSE Len(fetched)

C7_Witness ==
    /\ pc = "done" /\ callback
    /\ Len(fetched) = 2 /\ Terminal(Last(fetched))
    /\ cbLog = fetched
    /\ ret.status = Last(cbLog)
    /\ evalLog = <<1, 2>>

\* ==================================================================
\* Properties of the event stream
\* ==================================================================
IsDataLine(l) == l.kind \in {"data", "dataws"}

\* the data frames among the lines the server wrote, in order
RECURSIVE DataFrames(_)
DataFrames(lines) ==
    IF lines = <<>> THEN <<>>
    ELSE IF IsDataLine(Head(lines)) THEN <<Head(lines)>> \o DataFrames(Tail(lines))
    ELSE DataFrames(Tail(lines))

Malformed(l) == IsDataLine(l) /\ l.json \notin JsonTexts

\* the session has been neither closed nor cancelled
Alive == sess = "open" /\ ~sctxDone /\ ~bodyClosed

\* C8: on a session that is neither closed nor cancelled, when every data
\* frame the server wrote is a decodable status and the server then closes
\* the stream, the n-th Next returns the decoded status of the n-th data
\* frame with no error, in the order written, none dropped or repeated, and
\* every Next after the last frame returns io.EOF.
C8_FramesInOrderThenEOF ==
    (Alive /\ connEnd = "eof" /\ \A k \in 1..Len(sent) : ~Malformed(sent[k])) =>
        LET F == DataFrames(sent) IN
        \A n \in 1..Len(results) :
            results[n] = IF n <= Len(F)
                         THEN [status |-> JsonValue(F[n].json), err |-> NoError]
                         ELSE [status |-> EmptyStatus, err |-> EOF]

C8_Witness ==
    /\ Alive /\ npc = "idle" /\ connEnd = "eof"
    /\ sent = <<Line("data", JProcessing), Line("dataws", JFailedX)>>
    /\ Len(results) = 3
    /\ results[1].status.Status = "processing"
    /\ results[2].status.Status = "failed"
    /\ results[3].err = EOF

\* C9: on a session that is neither closed nor cancelled, a data frame whose
\* payload is not a decodable status makes exactly one Next return a decode
\* error with an empty status, at that frame's place in the order; the frames
\* after it are returned by the following Next calls as usual, and after the
\* last frame Next returns the end of the stream.
C9_MalformedFrameReportedOnce ==
    (Alive /\ \E k \in 1..Len(sent) : Malformed(sent[k])) =>
        LET F == DataFrames(sent) IN
        \A n \in 1..Len(results) :
            results[n] =
                IF n > Len(F)
                THEN [status |-> EmptyStatus,
                      err |-> IF connEnd = "eof" THEN EOF ELSE ReadError]
                ELSE IF Malformed(F[n])
                THEN [status |-> EmptyStatus, err |-> DecodeError]
                ELSE [status |-> JsonValue(F[n].json), err |-> NoError]

C9_Witness ==
    /\ Alive /\ npc = "idle"
    /\ sent = <<Line("data", JMalformed), Line("data", JProcessing)>>
    /\ Len(results) = 2
    /\ results[1].err = DecodeError
    /\ results[2] = [status |-> JsonValue(JProcessing), err |-> NoError]

\* C10: a Next called when the session's context is already cancelled returns
\* the context's error with an empty status, and between the call and the
\* return it neither reads the body nor takes anything from the reader,
\* whatever the reader holds.
C10_CancelledNextReadsNothing ==
    atCall.done =>
        /\ npc \in {"idle", "check"}
        /\ nReads = atCall.reads
        /\ buf = atCall.buf
        /\ npc = "idle" => results[Len(results)] = [status |-> EmptyStatus, err |-> CtxErr]

C10_Witness ==
    /\ atCall.done /\ npc = "idle"
    /\ results[Len(results)].err = CtxErr
    /\ HasLine(buf)
    /\ ~ProcessLine(ReadString(buf).line).skip
    /\ ProcessLine(ReadString(buf).line).out.err = NoError

\* ==================================================================
\* Properties of Close, SubmitTask and the requests
\* ==================================================================

\* C11: Close is always safe: called any number of times, or on what
\* StreamTaskStatus returned when the connection could not be established,
\* it never panics, and once a session's body is closed its context is
\* cancelled too.
C11_CloseNeverPanics ==
    /\ ~panicked
    /\ (sess = "open" /\ bodyClosed) => sctxDone

\* a SubmitTask call returns in this step
Submitted == nSubmits' = nSubmits + 1

\* C12: a SubmitTask call with an empty prompt returns the error 'prompt is
\* required' with no task identifier, and hands no request to the HTTP client.
C12_EmptyPromptNoRequest ==
    [][(Submitted /\ subCall'.prompt = "") =>
          /\ subRet' = [taskID |-> "", err |-> PromptRequired]
          /\ PromptRequired.msg = <<"prompt is required">>
          /\ nPosts' = nPosts
          /\ lastReq' = lastReq]_vars

C12_Witness ==
    /\ nSubmits = 2 /\ nPosts = 1
    /\ lastReq.method = "POST"
    /\ subCall.prompt = ""
    /\ subRet.err = PromptRequired

\* the body of a submit response parses into {taskId}
ParsesTaskID(body) == body \in {<<JTask>>, <<JNoTask>>}
TaskIDOf(body) == IF body = <<JTask>> THEN "task-1" ELSE ""

\* the request of the call could be built: the body marshals and the URL parses
Built(call) == Marshalable(call.opts) /\ call.urlOK

\* C13 as stated: every SubmitTask call with a non-empty prompt issues
\* exactly one POST.
C13_NonEmptyPromptIssuesOnePost ==
    [][(Submitted /\ subCall'.prompt # "") =>
          /\ nPosts' = nPosts + 1
          /\ lastReq'.method = "POST"]_vars

\* C13: a SubmitTask call with a non-empty prompt issues at most one POST:
\* none, with the error returned, when the body cannot be marshalled or the
\* request cannot be built, and exactly one POST of {prompt, options?}
\* otherwise.  Of the response to that POST: a transport failure is returned
\* as is; a status other than 200 or 202 gives an error carrying that
\* status; a 200/202 body that does not parse into {taskId} gives a decode
\* error; and the call returns no error exactly when the response is 200/202
\* with a parseable body, with the task identifier of that body.
C13_OnePostWhenBuiltAndClassified ==
    [][(Submitted /\ subCall'.prompt # "") =>
          LET call == subCall'
              r == call.resp
              ok == r.kind = "http" /\ r.code \in {200, 202}
          IN /\ nPosts' = nPosts + (IF Built(call) THEN 1 ELSE 0)
             /\ ~Built(call) =>
                   /\ subRet'.taskID = ""
                   /\ subRet'.err \in {MarshalError, NewRequestError}
                   /\ lastReq' = lastReq
             /\ Built(call) =>
                   /\ lastReq'.method = "POST"
                   /\ lastReq'.path = <<"/run">>
                   /\ lastReq'.body = SubmitBody(call.prompt, call.opts)
                   /\ r.kind = "neterr" =>
                         subRet' = [taskID |-> "", err |-> TransportError]
                   /\ (r.kind = "http" /\ ~ok) =>
                         /\ subRet'.taskID = ""
                         /\ subRet'.err.kind = "API"
                         /\ subRet'.err.code = r.code
                   /\ (ok /\ ~ParsesTaskID(r.body)) =>
                         subRet' = [taskID |-> "", err |-> DecodeError]
                   /\ (ok /\ ParsesTaskID(r.body)) =>
                         subRet' = [taskID |-> TaskIDOf(r.body), err |-> NoError]
             /\ subRet'.err = NoError <=> (Built(call) /\ ok /\ ParsesTaskID(r.body))]_vars

C13_Witness ==
    /\ nSubmits = 2 /\ nPosts = 2
    /\ subCall.prompt # "" /\ Built(subCall)
    /\ subCall.resp = Http(202, <<JTask>>)
    /\ lastReq.method = "POST"
    /\ lastReq.body = <<"hello", Opts("m", "plain")>>
    /\ subRet = [taskID |-> "task-1", err |-> NoError]

\* ==================================================================
\* Cancellation, unknown statuses and termination of WaitForCompletion
\* ==================================================================

\* C14: when the context is cancelled during the inter-poll wait (the select
\* being entered, the goroutine parked in it, or woken by the timer and not
\* yet running), no further GetTaskStatus call is started: every call made
\* is one of the fetches that returned a status before the wait.
C14_NoFetchAfterCancelInWait ==
    cancelAt \in {"select", "parked", "wokenTimer"} => nCalls = Len(fetched)

\* what the fetch that was in flight when the context was cancelled returns
\* when it is left alone
InFlight == GetTaskStatus(ServerResponse(reqAtCancel))

\* C15 as stated: a fetch in flight when the context is cancelled is not
\* preempted: once it has returned, it has returned what the server
\* answered, a status that was fetched or the error of that response.
C15_InFlightFetchNotPreempted ==
    (cancelAt = "fetching" /\ pc # "fetching") =>
        IF InFlight.err = NoError
        THEN Len(fetched) = reqAtCancel /\ fetched[reqAtCancel] = InFlight.status
        ELSE pc = "done" /\ ret = [status |-> EmptyStatus, err |-> InFlight.err]

\* C15: when the context is cancelled while a fetch is in flight, no further
\* request reaches the server, and the fetch in flight is either aborted,
\* and the call returns the request's context error with an empty status
\* and no callback for it, or returns the server's answer, which is
\* processed as always: its error returned, or its status given to the
\* callback, a completed status returned with no error, a failed one with
\* the task's failure.  After a non-terminal status the call returns the
\* context's error with that status from the select, or, when it takes the
\* timer case, the context error of the next request or the timeout.
C15_InFlightFetchAbortedOrProcessed ==
    cancelAt = "fetching" =>
        /\ nRequests = reqAtCancel
        /\ Len(fetched) \in {reqAtCancel - 1, reqAtCancel}
        /\ pc = "done" =>
              IF Len(fetched) = reqAtCancel
              THEN /\ InFlight.err = NoError
                   /\ Last(fetched) = InFlight.status
                   /\ callback => (Len(cbLog) = Len(fetched) /\ Last(cbLog) = InFlight.status)
                   /\ InFlight.status.Status = "completed" =>
                         ret = [status |-> InFlight.status, err |-> NoError]
                   /\ InFlight.status.Status = "failed" =>
                         /\ ret.status = InFlight.status
                         /\ ret.err = TaskFailedError(FailedMessage(InFlight.status))
                   /\ ~Terminal(InFlight.status) =>
                         ret \in { [status |-> InFlight.status, err |-> CtxErr],
                                   [status |-> EmptyStatus, err |-> DoCtxError],
                                   [status |-> EmptyStatus, err |-> TimeoutError] }
              ELSE /\ ret.status = EmptyStatus
                   /\ ret.err \in ({DoCtxError, InFlight.err} \ {NoError})
                   /\ Len(cbLog) <= Len(fetched)

C15_Witness ==
    /\ cancelAt = "fetching" /\ pc = "done"
    /\ reqAtCancel = 2
    /\ InFlight.err = NoError
    /\ InFlight.status.Status = "completed"
    /\ Len(fetched) = 1
    /\ ret = [status |-> EmptyStatus, err |-> DoCtxError]

\* the k-th request has returned without having been cancelled in flight
ReturnedUncancelled(k) ==
    /\ k < nRequests \/ pc # "fetching"
    /\ ~(cancelAt = "fetching" /\ reqAtCancel = k)

\* the non-terminal statuses among the first n fetched
NonTerminalFetched(n) == {k \in 1..n : ~Terminal(fetched[k])}

\* the last fetched status is still before the terminal conditions
BeforeEvaluation == pc \in {"callback", "eval"}

\* C16: a status whose status string is neither 'completed' nor 'failed',
\* 'processing' or a value the client does not know, is fetched as the
\* server sent it, is given to the callback, and is followed by an
\* inter-poll wait: the call returns neither success nor a task failure nor
\* a decode error for it.
C16_UnknownStatusPreservedNonTerminal ==
    /\ \A k \in 1..nRequests :
          (ReturnedUncancelled(k) /\ ServerResponse(k) \in ContinuingResponses) =>
              /\ Len(fetched) >= k
              /\ fetched[k] = JsonValue(ServerResponse(k).body[1])
              /\ fetched[k].Status \in {"processing", "queued"}
              /\ (callback /\ ~(k = Len(fetched) /\ pc = "callback")) =>
                    (Len(cbLog) >= k /\ cbLog[k] = fetched[k])
    /\ nWaits = Cardinality(NonTerminalFetched(Len(fetched)))
                 - (IF BeforeEvaluation /\ ~Terminal(Last(fetched)) THEN 1 ELSE 0)
    /\ (pc = "done" /\ fetched # <<>> /\ ~Terminal(Last(fetched))) =>
          /\ ret.err.kind \notin {"nil", "TaskFailed"}
          /\ nCalls = Len(fetched) => ret.err \in {CtxErr, TimeoutError}
          /\ ret.err = DecodeError =>
                (nRequests = Len(fetched) + 1
                 /\ GetTaskStatus(ServerResponse(nRequests)).err = DecodeError)

C16_Witness ==
    /\ pc = "parked" /\ callback
    /\ Len(fetched) = 2
    /\ fetched[1].Status = "queued" /\ fetched[2].Status = "queued"
    /\ cbLog = fetched
    /\ nWaits = 2

\* ==================================================================
\* Lines, headers and the end of a stream session
\* ==================================================================

\* the lines ReadString has returned so far
Consumed == SubSeq(sent, 1, nLines)

\* the results of Next that come from a line: a status or a decode error
FromLine(r) == r.err \in {NoError, DecodeError}
LineResults == {k \in 1..Len(results) : FromLine(results[k])}

\* Next reads a line that is not a data line in this step
SkipsLine == nLines' = nLines + 1 /\ ~IsDataLine(sent[nLines + 1])

\* C17: blank lines, lines beginning with ':' and lines not beginning with
\* 'data:' are skipped.  Reading one returns nothing: Next neither appends a
\* result nor returns, and goes on to the next line in the same call.  So
\* the results that come from a line are as many as the data lines read,
\* the decode errors as many as the undecodable data lines read, and a Next
\* that returned a status or a decode error read a data line last.
C17_NonDataLinesSkipped ==
    /\ [](/\ nLines <= Len(sent)
          /\ Cardinality(LineResults) = Len(DataFrames(Consumed))
          /\ Cardinality({k \in 1..Len(results) : results[k].err = DecodeError})
               = Cardinality({k \in 1..nLines : Malformed(sent[k])})
          /\ (npc = "idle" /\ results # <<>> /\ FromLine(Last(results))) =>
                (nLines >= 1 /\ IsDataLine(sent[nLines])))
    /\ [][SkipsLine => (results' = results /\ npc = "read" /\ npc' = "check")]_vars

C17_Witness ==
    /\ Alive /\ npc = "idle"
    /\ sent = <<Line("event", JCompleted), Line("data", JProcessing)>>
    /\ nLines = 2
    /\ results = << [status |-> JsonValue(JProcessing), err |-> NoError] >>

\* C18: every request the client hands to the HTTP client, the submission,
\* the status fetch and the opening of the event stream, carries
\* 'Authorization: Bearer {apiKey}' when an API key is configured, and the
\* SDK-identification header 'X-SDK-Language: go'.
C18_EveryRequestCarriesAuthAndSDK ==
    lastReq # NoRequest =>
        /\ apiKey # "" => lastReq.Authorization = <<"Bearer ", apiKey>>
        /\ lastReq.SDKLanguage = <<"go">>

\* C19: once Next has returned a terminal error, the end of the stream or a
\* transport read error, the session is destroyed, its governing context
\* cancelled and its response body closed, whether or not Close is called.
C19_TerminalErrorDestroysSession ==
    (sess = "open" /\ results # <<>> /\ Last(results).err \in {EOF, ReadError}) =>
        (sctxDone /\ bodyClosed)

\* ==================================================================
\* Termination of WaitForCompletion
\* ==================================================================

\* the terminal outcome a returned (TaskStatus, error) stands for
Outcome(r) ==
    CASE r.err = NoError /\ r.status.Status = "completed" -> "Completed"
      [] r.err.kind = "TaskFailed" /\ r.status.Status = "failed" -> "Failed"
      [] r.err = TimeoutError -> "TimedOut"
      [] r.err = CtxErr -> "Cancelled"
      [] r.err.kind \in {"Transport", "API", "Decode"} -> "Errored"
      [] OTHER -> "None"

\* the conditions of the outcomes that hold of r
OutcomesOf(r) ==
    {o \in {"Completed", "Failed", "TimedOut", "Cancelled", "Errored"} :
        \/ o = "Completed" /\ r.err = NoError /\ r.status.Status = "completed"
        \/ o = "Failed" /\ r.err.kind = "TaskFailed" /\ r.status.Status = "failed"
        \/ o = "TimedOut" /\ r.err = TimeoutError
        \/ o = "Cancelled" /\ r.err = CtxErr
        \/ o = "Errored" /\ r.err.kind \in {"Transport", "API", "Decode"}}

\* C20: when the goroutine keeps running, every fetch returns and every
\* timer fires, a call of WaitForCompletion returns, and what it returns is
\* exactly one of Completed, Failed, TimedOut, Cancelled and Errored; it
\* makes at most maxAttempts fetches on the way.
C20_TerminatesInOneOutcome ==
    /\ (pc = "loop") ~> (pc = "done")
    /\ [](pc = "done" => (Cardinality(OutcomesOf(ret)) = 1 /\ Outcome(ret) \in OutcomesOf(ret)))
    /\ [](pc # "idle" => (nCalls = 0 \/ nCalls <= maxAttempts))

C20_Witness ==
    /\ pc = "done"
    /\ maxAttempts = DefaultMaxPoll
    /\ nCalls = DefaultMaxPoll
    /\ ~ctxDone
    /\ Outcome(ret) = "TimedOut"

\* ==================================================================
\* Defaults, statuses handed out, and composition
\* ==================================================================

\* C21: a call given 0 for the polling interval waits 1 second between
\* polls, and a call given 0 for maxAttempts makes at most 60 fetches; a
\* non-zero value is used as given, for the wait and for the number of
\* fetches (none when it is negative).
C21_ZeroArgumentsTakeDefaults ==
    pc # "idle" =>
        /\ pollInterval = (IF given.pollInterval = 0 THEN 1 ELSE given.pollInterval)
        /\ maxAttempts = (IF given.maxAttempts = 0 THEN 60 ELSE given.maxAttempts)
        /\ nWaits >= 1 => timerDur = (IF given.pollInterval = 0 THEN 1 ELSE given.pollInterval)
        /\ given.maxAttempts = 0 => nCalls <= 60
        /\ given.maxAttempts > 0 => nCalls <= given.maxAttempts
        /\ given.maxAttempts < 0 => nCalls = 0
        /\ (pc = "done" /\ ret.err = TimeoutError /\ given.maxAttempts >= 0) =>
              nCalls = (IF given.maxAttempts = 0 THEN 60 ELSE given.maxAttempts)

C21_Witness ==
    /\ pc = "done"
    /\ given = [pollInterval |-> 0, maxAttempts |-> 0]
    /\ nCalls = 60 /\ nWaits = 60
    /\ timerDur = 1
    /\ ret.err = TimeoutError

\* result is set only on a completed status, error only on a failed one
WellFormed(st) ==
    /\ st.Result # Nil => st.Status = "completed"
    /\ st.Error # Nil => st.Status = "failed"

\* C22: every TaskStatus handed to a caller, by GetTaskStatus, by
\* WaitForCompletion, to the polling callback or by Next, has its result set
\* only when its status is 'completed' and its error set only when its
\* status is 'failed'.
C22_HandedStatusesWellFormed ==
    /\ \A k \in 1..Len(fetched) : WellFormed(fetched[k])
    /\ \A k \in 1..Len(cbLog) : WellFormed(cbLog[k])
    /\ WellFormed(ret.status)
    /\ \A k \in 1..Len(results) : WellFormed(results[k].status)

\* ==================================================================
\* The end of the stream and the closed session
\* ==================================================================

\* the errors of a read of the body
ReadErrors == {EOF, ReadError, ReadCtxError, ClosedBodyError}

\* Next returns from a read of the body in this step
ReturnsFromRead == npc = "read" /\ npc' = "idle" /\ nReads' = nReads + 1

\* C23: a stream session makes one connection request in its whole life,
\* the request StreamTaskStatus sent.  A read of the body that brings no
\* bytes makes Next return its error with an empty status, and once Next
\* has returned a read error or the end of the stream, every later Next
\* returns an error and an empty status.
C23_NoReconnectAfterReadError ==
    /\ [](/\ sess = "none" => nConnects = 0
          /\ sess = "open" => (nConnects = 1 /\ lastReq = StreamRequest(TheTaskID, apiKey))
          /\ \A k \in 1..Len(results) : \A n \in (k + 1)..Len(results) :
                results[k].err \in ReadErrors =>
                    (results[n].err # NoError /\ results[n].status = EmptyStatus))
    /\ [][ReturnsFromRead =>
             (Last(results').err \in ReadErrors /\ Last(results').status = EmptyStatus)]_vars

C23_Witness ==
    /\ sess = "open" /\ ~sctxDone /\ ~bodyClosed /\ npc = "idle"
    /\ connEnd = "reset"
    /\ nConnects = 1
    /\ Len(results) = 3
    /\ results[1].err = NoError
    /\ results[2].err = ReadError
    /\ results[3].err = ReadError

\* ==================================================================
\* A context cancelled before the call, and the wait after the last fetch
\* ==================================================================

\* C24 as stated: a call made with a context that is already cancelled
\* returns an error saying 'context canceled', and neither a completed
\* status nor the timeout.
C24_PreCancelledReturnsCancelled ==
    (cancelAt = "idle" /\ pc = "done") =>
        /\ Contains(ret.err.msg, "context canceled")
        /\ ret.err # TimeoutError
        /\ ret.status.Status # "completed"

\* C24: a call made with a context that is already cancelled sends no
\* request to the server, fetches no status and invokes no callback.  With
\* maxAttempts positive, or 0 for the default, it makes one GetTaskStatus
\* call, which fails on the cancelled context, and returns that error,
\* which says 'context canceled', with an empty status.  With maxAttempts
\* negative it makes no call and returns 'task timed out'.
C24_PreCancelledFailsFirstFetch ==
    cancelAt = "idle" =>
        /\ nRequests = 0 /\ fetched = <<>> /\ cbLog = <<>> /\ nWaits = 0
        /\ pc \in {"idle", "loop", "done"}
        /\ pc = "done" =>
              IF given.maxAttempts >= 0
              THEN /\ nCalls = 1
                   /\ ret = [status |-> EmptyStatus, err |-> DoCtxError]
                   /\ Contains(ret.err.msg, "context canceled")
              ELSE /\ nCalls = 0
                   /\ ret = [status |-> EmptyStatus, err |-> TimeoutError]

C24_Witness ==
    /\ cancelAt = "idle" /\ pc = "done"
    /\ given.maxAttempts = 3
    /\ tail = CompletedResponse
    /\ Contains(ret.err.msg, "context canceled")

\* ==================================================================
\* Composition: RunTask and RunTaskStream
\* ==================================================================

\* the steps of the two calls
RunTaskStep == pc = "idle" /\ pc' # "idle"
RunTaskStreamStep == rpc = "idle" /\ Submitted /\ (rpc' = "submitted" \/ sess' # sess)
StreamOpenStep == rpc = "submitted" /\ rpc' = "idle"
FetchStep == nCalls' = nCalls + 1

\* C25: RunTask and RunTaskStream submit first.  When the submission fails
\* they return its error, and no status fetch and no stream request is ever
\* made.  When it succeeds, RunTask polls, and RunTaskStream opens the
\* stream, with the task identifier the submission returned: the status
\* requests go to /status/{that id}, the stream request to /stream/{that
\* id}, and each is made after the POST of the submission.
C25_SubmitThenPollOrStream ==
    [][/\ RunTaskStep =>
            /\ Submitted
            /\ nCalls' = 0 /\ nRequests' = 0
            /\ IF subRet'.err = NoError
               THEN /\ pc' = "loop"
                    /\ taskID' = subRet'.taskID
                    /\ lastReq'.method = "POST" /\ nPosts' = nPosts + 1
               ELSE /\ pc' = "done"
                    /\ ret' = [status |-> EmptyStatus, err |-> subRet'.err]
       /\ FetchStep =>
            /\ nPosts >= 1
            /\ lastReq' = DoRequest("GET", <<"/status/", taskID>>, <<>>, apiKey)
       /\ pc = "done" => (pc' = "done" /\ nCalls' = nCalls /\ ret' = ret)
       /\ RunTaskStreamStep =>
            /\ nConnects' = nConnects
            /\ IF subRet'.err = NoError
               THEN /\ rpc' = "submitted" /\ sess' = "none"
                    /\ streamID' = subRet'.taskID
                    /\ lastReq'.method = "POST" /\ nPosts' = nPosts + 1
               ELSE /\ rpc' = "idle" /\ sess' = "failed"
       /\ StreamOpenStep =>
            /\ nPosts >= 1
            /\ streamID' = streamID
            /\ \/ lastReq' = StreamRequest(streamID, apiKey) /\ nConnects' = nConnects + 1
               \/ lastReq' = lastReq /\ nConnects' = nConnects /\ sess' = "failed"
       /\ nConnects' # nConnects => StreamOpenStep
       /\ sess = "failed" => (sess' = "failed" /\ nConnects' = nConnects)]_vars

C25_Witness ==
    /\ pc = "done" /\ ret.err = NoError /\ ret.status.Status = "completed"
    /\ taskID = "task-1" /\ nCalls = 1
    /\ sess = "open" /\ streamID = "task-1"
    /\ lastReq = StreamRequest("task-1", apiKey)
    /\ nPosts = 2 /\ nConnects = 1

\* ==================================================================
\* The wait after the last fetch
\* ==================================================================

\* the call is in the wait that follows its maxAttempts-th fetch
InFinalWait == maxAttempts >= 1 /\ Len(fetched) = maxAttempts /\ i = maxAttempts - 1

\* C26: every fetch of a non-terminal status is followed by an inter-poll
\* wait, the maxAttempts-th included.  The timeout is returned only after
\* the timer of that last wait has fired, with as many waits as fetches
\* made; and a cancellation that fires while the call is parked in that
\* last wait makes it return the context's error with the last status, not
\* the timeout.
C26_FinalWaitBeforeTimeout ==
    /\ nWaits = Cardinality(NonTerminalFetched(Len(fetched)))
                 - (IF BeforeEvaluation /\ ~Terminal(Last(fetched)) THEN 1 ELSE 0)
    /\ (pc = "done" /\ ret.err = TimeoutError /\ maxAttempts >= 1) =>
          /\ nCalls = maxAttempts /\ Len(fetched) = maxAttempts
          /\ nWaits = maxAttempts
          /\ timerFired
          /\ cancelAt # "parked"
    /\ (InFinalWait /\ pc \in {"select", "parked", "wokenCtx", "wokenTimer"}) =>
          (timerArmed /\ timerDur = pollInterval /\ nWaits = maxAttempts)
    /\ (cancelAt = "parked" /\ InFinalWait /\ pc = "done") =>
          ret = [status |-> Last(fetched), err |-> CtxErr]

C26_Witness ==
    /\ cancelAt = "parked" /\ InFinalWait /\ pc = "done"
    /\ maxAttempts = 3 /\ nWaits = 3
    /\ ret.err = CtxErr /\ ret.status = Last(fetched)

\* ==================================================================
\* Next after Close, the unterminated last line, terminal statuses
\* ==================================================================

\* the reader holds a complete data frame that decodes to a status
HoldsFrame(b) ==
    /\ HasLine(b)
    /\ ~ProcessLine(ReadString(b).line).skip
    /\ ProcessLine(ReadString(b).line).out.err = NoError

\* C27: a Next called after Close has returned on the session returns the
\* context's error with an empty status and never a status: it does not get
\* as far as the reader, which it leaves as it was, complete data frames
\* included.
C27_NextAfterCloseIsCancelled ==
    /\ (sess = "open" /\ bodyClosed) => sctxDone
    /\ atCall.closed =>
          /\ npc \in {"idle", "check"}
          /\ buf = atCall.buf
          /\ npc = "idle" => Last(results) = [status |-> EmptyStatus, err |-> CtxErr]

C27_Witness ==
    /\ atCall.closed /\ npc = "idle"
    /\ Len(results) >= 2
    /\ results[Len(results)].err = CtxErr
    /\ results[Len(results) - 1].err = CtxErr
    /\ HoldsFrame(buf)

\* what Next returns for the data frame l (86-92)
FrameResult(l) ==
    IF Malformed(l) THEN [status |-> EmptyStatus, err |-> DecodeError]
    ELSE [status |-> JsonValue(l.json), err |-> NoError]

\* the read errors with which the server's end of the stream shows
StreamEnd == IF connEnd = "eof" THEN EOF ELSE ReadError

\* C28: on a session that is neither closed nor cancelled, when the server
\* ends the stream after a last line without its newline, the Next that
\* reaches it returns the read error with an empty status and the bytes of
\* that line are gone from the reader: the calls return the frames of the
\* terminated lines and nothing else, even when the unterminated line is a
\* data frame with a decodable status.
C28_UnterminatedLineDiscarded ==
    (Alive /\ part # <<>>) =>
        LET F == DataFrames(sent) IN
        /\ \A n \in 1..Len(results) :
              /\ n <= Len(F) => results[n] = FrameResult(F[n])
              /\ n > Len(F) => results[n] = [status |-> EmptyStatus, err |-> StreamEnd]
        /\ (npc = "idle" /\ Len(results) > Len(F)) => (buf = <<>> /\ wire = <<>>)

C28_Witness ==
    /\ Alive /\ npc = "idle" /\ connEnd = "eof"
    /\ part = DataPrefix \o <<" ", JCompleted>>
    /\ ~ProcessLine(part).skip /\ ProcessLine(part).out.err = NoError
    /\ sent = <<Line("data", JProcessing)>>
    /\ Len(results) = 3
    /\ results[1].err = NoError
    /\ results[2].err = EOF /\ results[3].err = EOF

\* a Next call returns in this step
NextReturns == Len(results') = Len(results) + 1

\* C29: Next does not interpret the status of a frame.  It never returns the
\* poller's 'task failed' error: a frame with status 'failed' comes back as
\* that status with no error.  The step in which Next returns a status,
\* 'completed' and 'failed' included, neither cancels the session's context
\* nor closes its body nor ends the session, and on a session that is neither
\* closed nor cancelled the calls after it return the frames that follow, in
\* order.
C29_TerminalFramesAreOrdinary ==
    /\ [](\A n \in 1..Len(results) : results[n].err.kind # "TaskFailed")
    /\ [](Alive =>
            LET F == DataFrames(sent) IN
            \A n \in 1..Len(results) :
                n <= Len(F) => results[n] = FrameResult(F[n]))
    /\ [][(NextReturns /\ Last(results').err = NoError) =>
            UNCHANGED <<sess, sctxDone, bodyClosed, wire>>]_vars

C29_Witness ==
    /\ Alive /\ npc = "idle"
    /\ sent = <<Line("data", JCompleted), Line("dataws", JFailedX)>>
    /\ Len(results) = 3
    /\ results[1] = [status |-> JsonValue(JCompleted), err |-> NoError]
    /\ results[2] = [status |-> JsonValue(JFailedX), err |-> NoError]
    /\ results[3].err = StreamEnd

====
